---------------------------- MODULE Spec2Model ----------------------------
(***************************************************************************)
(* A model of chameleon, a record/replay HTTP proxy.                       *)
(*                                                                         *)
(* Strings and byte slices of the Go code are sequences of byte values     *)
(* (0..255).  "GET" is <<71, 69, 84>>.  The bytes above 127 that occur in  *)
(* the model are 255 (never part of valid UTF-8) and the triple            *)
(* 239,191,189 (U+FFFD, the replacement character).  The JSON texts of the *)
(* model contain no backslash, no '-', '.', 'e', 'E' inside numbers and no *)
(* '<', '>', '&': escape sequences, fractions and exponents are outside    *)
(* the modelled alphabet.                                                  *)
(***************************************************************************)
EXTENDS Integers, Sequences, FiniteSets, TLC

VARIABLES mode, store, last, saved, pending

vars == <<mode, store, last, saved, pending>>

(***************************************************************************)
(* Bounds of the model.                                                    *)
(***************************************************************************)
MaxBodyLen == 3

(***************************************************************************)
(* Bytes and small helpers.                                                *)
(***************************************************************************)
Ch == [quote |-> 34, space |-> 32, tab |-> 9, lf |-> 10, cr |-> 13,
       comma |-> 44, colon |-> 58, lbrack |-> 91, rbrack |-> 93,
       lbrace |-> 123, rbrace |-> 125, eq |-> 61, plus |-> 43, slash |-> 47,
       backslash |-> 92, dash |-> 45, zero |-> 48, nine |-> 57,
       percent |-> 37, question |-> 63]

\* the strings of the program and of the model's inputs, as bytes
Str == [GET |-> <<71, 69, 84>>,
        POST |-> <<80, 79, 83, 84>>,
        pathA |-> <<47, 97>>,
        pathB |-> <<47, 98>>,
        ContentLength |-> <<67, 111, 110, 116, 101, 110, 116, 45, 76, 101, 110, 103, 116, 104>>,
        contentLengthLower |-> <<99, 111, 110, 116, 101, 110, 116, 45, 108, 101, 110, 103, 116, 104>>,
        ContentType |-> <<67, 111, 110, 116, 101, 110, 116, 45, 84, 121, 112, 101>>,
        XContentTypeOptions |-> <<88, 45, 67, 111, 110, 116, 101, 110, 116, 45, 84, 121, 112, 101, 45, 79, 112, 116, 105, 111, 110, 115>>,
        nosniff |-> <<110, 111, 115, 110, 105, 102, 102>>,
        textPlainType |-> <<116, 101, 120, 116, 47, 112, 108, 97, 105, 110>>,
        textPlain |-> <<116, 101, 120, 116, 47, 112, 108, 97, 105, 110, 59, 32, 99, 104, 97, 114, 115, 101, 116, 61, 117, 116, 102, 45, 56>>,
        appJSON |-> <<97, 112, 112, 108, 105, 99, 97, 116, 105, 111, 110, 47, 106, 115, 111, 110>>,
        XMulti |-> <<88, 45, 77, 117, 108, 116, 105>>,
        Accept |-> <<65, 99, 99, 101, 112, 116>>,
        IfNoneMatch |-> <<73, 102, 45, 78, 111, 110, 101, 45, 77, 97, 116, 99, 104>>,
        IfModifiedSince |-> <<73, 102, 45, 77, 111, 100, 105, 102, 105, 101, 100, 45, 83, 105, 110, 99, 101>>,
        IfRange |-> <<73, 102, 45, 82, 97, 110, 103, 101>>,
        IfMatch |-> <<73, 102, 45, 77, 97, 116, 99, 104>>,
        IfUnmodifiedSince |-> <<73, 102, 45, 85, 110, 109, 111, 100, 105, 102, 105, 101, 100, 45, 83, 105, 110, 99, 101>>,
        CacheControl |-> <<67, 97, 99, 104, 101, 45, 67, 111, 110, 116, 114, 111, 108>>,
        noCache |-> <<110, 111, 45, 99, 97, 99, 104, 101>>,
        maxAge0 |-> <<109, 97, 120, 45, 97, 103, 101, 61, 48>>,
        noCacheNoStore |-> <<110, 111, 45, 99, 97, 99, 104, 101, 44, 32, 110, 111, 45, 115, 116, 111, 114, 101>>,
        maxAge60 |-> <<109, 97, 120, 45, 97, 103, 101, 61, 54, 48>>,
        etag1 |-> <<34, 101, 116, 97, 103, 49, 34>>,
        null |-> <<110, 117, 108, 108>>,
        true |-> <<116, 114, 117, 101>>,
        false |-> <<102, 97, 108, 115, 101>>,
        msgNoCached |-> <<110, 111, 32, 99, 97, 99, 104, 101, 100, 32, 114, 101, 115, 112, 111, 110, 115, 101, 32, 102, 111, 117, 110, 100, 32, 102, 111, 114, 32, 114, 101, 113, 117, 101, 115, 116, 32, 40, 104, 97, 115, 104, 58, 32>>,
        msgLoad |-> <<102, 97, 105, 108, 101, 100, 32, 116, 111, 32, 108, 111, 97, 100, 32, 99, 97, 99, 104, 101, 100, 32, 114, 101, 115, 112, 111, 110, 115, 101, 58, 32>>,
        msgReadBody |-> <<102, 97, 105, 108, 101, 100, 32, 116, 111, 32, 114, 101, 97, 100, 32, 114, 101, 113, 117, 101, 115, 116, 32, 98, 111, 100, 121, 58, 32>>,
        errRead |-> <<102, 97, 105, 108, 101, 100, 32, 116, 111, 32, 114, 101, 97, 100, 32, 99, 97, 99, 104, 101, 100, 32, 114, 101, 115, 112, 111, 110, 115, 101>>,
        errUnmarshal |-> <<102, 97, 105, 108, 101, 100, 32, 116, 111, 32, 117, 110, 109, 97, 114, 115, 104, 97, 108, 32, 99, 97, 99, 104, 101, 100, 32, 114, 101, 115, 112, 111, 110, 115, 101>>,
        closeParen |-> <<41>>]

Drop(s, n) == SubSeq(s, n + 1, Len(s))

Take(s, n) == SubSeq(s, 1, n)

\* the byte sequences over A of length n at most
RECURSIVE SeqsUpTo(_, _)
SeqsUpTo(A, n) ==
    IF n = 0 THEN {<<>>}
    ELSE LET shorter == SeqsUpTo(A, n - 1)
         IN  shorter \cup {Append(s, a) : s \in shorter, a \in A}

\* lexicographic order on byte sequences (Go's string comparison)
RECURSIVE BytesLess(_, _)
BytesLess(a, b) ==
    IF Len(b) = 0 THEN FALSE
    ELSE IF Len(a) = 0 THEN TRUE
    ELSE IF Head(a) # Head(b) THEN Head(a) < Head(b)
    ELSE BytesLess(Tail(a), Tail(b))

RECURSIVE SortKeys(_)
SortKeys(S) ==
    IF S = {} THEN <<>>
    ELSE LET m == CHOOSE x \in S : \A y \in S \ {x} : BytesLess(x, y)
         IN  <<m>> \o SortKeys(S \ {m})

(***************************************************************************)
(* encoding/base64, StdEncoding (padded, not strict).                      *)
(***************************************************************************)
B64Char(i) ==
    IF i < 26 THEN 65 + i
    ELSE IF i < 52 THEN 71 + i
    ELSE IF i < 62 THEN i - 4
    ELSE IF i = 62 THEN Ch.plus ELSE Ch.slash

B64Index(c) ==
    IF c >= 65 /\ c <= 90 THEN c - 65
    ELSE IF c >= 97 /\ c <= 122 THEN c - 71
    ELSE IF c >= 48 /\ c <= 57 THEN c + 4
    ELSE IF c = Ch.plus THEN 62
    ELSE IF c = Ch.slash THEN 63
    ELSE -1

RECURSIVE EncodeToString(_)
EncodeToString(bs) ==
    IF Len(bs) = 0 THEN <<>>
    ELSE IF Len(bs) = 1 THEN
        LET n == bs[1] * 65536
        IN  <<B64Char(n \div 262144), B64Char((n \div 4096) % 64), Ch.eq, Ch.eq>>
    ELSE IF Len(bs) = 2 THEN
        LET n == bs[1] * 65536 + bs[2] * 256
        IN  <<B64Char(n \div 262144), B64Char((n \div 4096) % 64),
              B64Char((n \div 64) % 64), Ch.eq>>
    ELSE
        LET n == bs[1] * 65536 + bs[2] * 256 + bs[3]
        IN  <<B64Char(n \div 262144), B64Char((n \div 4096) % 64),
              B64Char((n \div 64) % 64), B64Char(n % 64)>>
            \o EncodeToString(Drop(bs, 3))

\* the decoder skips '\r' and '\n'
StripNewlines(s) == SelectSeq(s, LAMBDA c : c # Ch.cr /\ c # Ch.lf)

RECURSIVE DecodeQuanta(_)
DecodeQuanta(s) ==
    IF Len(s) = 0 THEN [ok |-> TRUE, bytes |-> <<>>]
    ELSE IF Len(s) < 4 THEN [ok |-> FALSE, bytes |-> <<>>]
    ELSE
        LET i1 == B64Index(s[1])
            i2 == B64Index(s[2])
            i3 == B64Index(s[3])
            i4 == B64Index(s[4])
            final == Len(s) = 4
        IN  IF i1 < 0 \/ i2 < 0 THEN [ok |-> FALSE, bytes |-> <<>>]
            ELSE IF s[3] = Ch.eq THEN
                IF final /\ s[4] = Ch.eq
                THEN [ok |-> TRUE, bytes |-> <<(i1 * 4 + i2 \div 16) % 256>>]
                ELSE [ok |-> FALSE, bytes |-> <<>>]
            ELSE IF i3 < 0 THEN [ok |-> FALSE, bytes |-> <<>>]
            ELSE IF s[4] = Ch.eq THEN
                IF final
                THEN [ok |-> TRUE,
                      bytes |-> <<(i1 * 4 + i2 \div 16) % 256,
                                  ((i2 % 16) * 16 + i3 \div 4) % 256>>]
                ELSE [ok |-> FALSE, bytes |-> <<>>]
            ELSE IF i4 < 0 THEN [ok |-> FALSE, bytes |-> <<>>]
            ELSE
                LET rest == DecodeQuanta(Drop(s, 4))
                IN  IF ~rest.ok THEN [ok |-> FALSE, bytes |-> <<>>]
                    ELSE [ok |-> TRUE,
                          bytes |-> <<(i1 * 4 + i2 \div 16) % 256,
                                      ((i2 % 16) * 16 + i3 \div 4) % 256,
                                      ((i3 % 4) * 64 + i4) % 256>> \o rest.bytes]

DecodeString(s) == DecodeQuanta(StripNewlines(s))

(***************************************************************************)
(* encoding/json.  A decoded value (Unmarshal into interface{}) is a       *)
(* tagged record: null, bool, num (float64 holding a small integer), str   *)
(* (bytes, valid UTF-8), arr (sequence of values), obj (a map from key     *)
(* bytes to value; a repeated key keeps its last value).                   *)
(***************************************************************************)
Fail == [ok |-> FALSE]

IsWS(c) == c \in {Ch.space, Ch.tab, Ch.lf, Ch.cr}

IsDigit(c) == c >= Ch.zero /\ c <= Ch.nine

RECURSIVE SkipWS(_)
SkipWS(s) == IF Len(s) > 0 /\ IsWS(Head(s)) THEN SkipWS(Tail(s)) ELSE s

\* strings.ToValidUTF8 with U+FFFD, as the decoder's unquote and the
\* encoder's string escaping followed by decoding both do
RECURSIVE ToValidUTF8(_)
ToValidUTF8(s) ==
    IF Len(s) = 0 THEN <<>>
    ELSE IF Head(s) < 128 THEN <<Head(s)>> \o ToValidUTF8(Tail(s))
    ELSE IF Len(s) >= 3 /\ Take(s, 3) = <<239, 191, 189>>
         THEN <<239, 191, 189>> \o ToValidUTF8(Drop(s, 3))
    ELSE <<239, 191, 189>> \o ToValidUTF8(Tail(s))

\* s starts after the opening quote
RECURSIVE ScanString(_, _)
ScanString(s, acc) ==
    IF Len(s) = 0 THEN Fail
    ELSE IF Head(s) = Ch.quote
         THEN [ok |-> TRUE, v |-> ToValidUTF8(acc), rest |-> Tail(s)]
    ELSE IF Head(s) < 32 \/ Head(s) = Ch.backslash THEN Fail
    ELSE ScanString(Tail(s), Append(acc, Head(s)))

RECURSIVE ScanDigits(_, _)
ScanDigits(s, n) ==
    IF Len(s) > 0 /\ IsDigit(Head(s))
    THEN ScanDigits(Tail(s), 10 * n + (Head(s) - Ch.zero))
    ELSE [ok |-> TRUE, v |-> [t |-> "num", n |-> n], rest |-> s]

ParseNumber(s) ==
    IF Head(s) = Ch.zero
    THEN [ok |-> TRUE, v |-> [t |-> "num", n |-> 0], rest |-> Tail(s)]
    ELSE ScanDigits(s, 0)

ParseLiteral(s, word, val) ==
    IF Len(s) >= Len(word) /\ Take(s, Len(word)) = word
    THEN [ok |-> TRUE, v |-> val, rest |-> Drop(s, Len(word))]
    ELSE Fail

Parsed(v, rest) == [ok |-> TRUE, v |-> v, rest |-> rest]

\* a result whose value is wrapped as a JSON string
AsString(r) == IF r.ok THEN Parsed([t |-> "str", s |-> r.v], r.rest) ELSE Fail

RECURSIVE ParseValue(_), ParseElems(_, _), AfterElem(_, _), ParseMembers(_, _),
          AfterKey(_, _), AfterMember(_, _)
\* s has no leading white space
ParseValue(s) ==
    IF Len(s) = 0 THEN Fail
    ELSE IF Head(s) = Ch.quote THEN AsString(ScanString(Tail(s), <<>>))
    ELSE IF IsDigit(Head(s)) THEN ParseNumber(s)
    ELSE IF Head(s) = 110 THEN ParseLiteral(s, Str.null, [t |-> "null"])
    ELSE IF Head(s) = 116 THEN ParseLiteral(s, Str.true, [t |-> "bool", b |-> TRUE])
    ELSE IF Head(s) = 102 THEN ParseLiteral(s, Str.false, [t |-> "bool", b |-> FALSE])
    ELSE IF Head(s) = Ch.lbrack THEN ParseElems(SkipWS(Tail(s)), <<>>)
    ELSE IF Head(s) = Ch.lbrace THEN ParseMembers(SkipWS(Tail(s)), <<>>)
    ELSE Fail

\* s follows '[' or ','; acc holds the elements read so far
ParseElems(s, acc) ==
    IF Len(acc) = 0 /\ Len(s) > 0 /\ Head(s) = Ch.rbrack
    THEN Parsed([t |-> "arr", a |-> <<>>], Tail(s))
    ELSE AfterElem(ParseValue(s), acc)

\* e is the element just read
AfterElem(e, acc) ==
    IF ~e.ok \/ Len(SkipWS(e.rest)) = 0 THEN Fail
    ELSE IF Head(SkipWS(e.rest)) = Ch.rbrack
         THEN Parsed([t |-> "arr", a |-> Append(acc, e.v)], Tail(SkipWS(e.rest)))
    ELSE IF Head(SkipWS(e.rest)) = Ch.comma
         THEN AfterElem(ParseValue(SkipWS(Tail(SkipWS(e.rest)))), Append(acc, e.v))
    ELSE Fail

\* s follows '{' or ','; acc is the map read so far, empty is whether no
\* member was read yet
ParseMembers(s, acc) ==
    IF DOMAIN acc = {} /\ Len(s) > 0 /\ Head(s) = Ch.rbrace
    THEN Parsed([t |-> "obj", o |-> <<>>], Tail(s))
    ELSE IF Len(s) = 0 \/ Head(s) # Ch.quote THEN Fail
    ELSE AfterKey(ScanString(Tail(s), <<>>), acc)

\* k is the key just read
AfterKey(k, acc) ==
    IF ~k.ok \/ Len(SkipWS(k.rest)) = 0 \/ Head(SkipWS(k.rest)) # Ch.colon THEN Fail
    ELSE AfterMember([k |-> k.v, e |-> ParseValue(SkipWS(Tail(SkipWS(k.rest))))], acc)

\* m is the member just read: its key and the result for its value
AfterMember(m, acc) ==
    IF ~m.e.ok \/ Len(SkipWS(m.e.rest)) = 0 THEN Fail
    ELSE IF Head(SkipWS(m.e.rest)) = Ch.rbrace
         THEN Parsed([t |-> "obj", o |-> (m.k :> m.e.v) @@ acc], Tail(SkipWS(m.e.rest)))
    ELSE IF Head(SkipWS(m.e.rest)) = Ch.comma
         THEN LET s == SkipWS(Tail(SkipWS(m.e.rest)))
              IN  IF Len(s) = 0 \/ Head(s) # Ch.quote THEN Fail
                  ELSE AfterKey(ScanString(Tail(s), <<>>), (m.k :> m.e.v) @@ acc)
    ELSE Fail

\* the value read, if nothing but white space follows it
WholeValue(r) ==
    IF r.ok /\ Len(SkipWS(r.rest)) = 0 THEN [ok |-> TRUE, v |-> r.v] ELSE Fail

\* json.Unmarshal(data, &interface{}): one value, white space around it
Unmarshal(data) == WholeValue(ParseValue(SkipWS(data)))

RECURSIVE Digits(_)
Digits(n) == IF n < 10 THEN <<Ch.zero + n>> ELSE Digits(n \div 10) \o <<Ch.zero + (n % 10)>>

Spaces(n) == [i \in 1..n |-> Ch.space]

\* the line break and indentation MarshalIndent(v, "", "  ") puts before an
\* item nested `depth` levels deep; nothing in the compact form of Marshal
NewLine(pretty, depth) == IF pretty THEN <<Ch.lf>> \o Spaces(2 * depth) ELSE <<>>

\* json.Marshal (pretty = FALSE) and json.MarshalIndent (pretty = TRUE) of a
\* decoded value: the keys of an object sorted
RECURSIVE MarshalValue(_, _, _), MarshalItems(_, _, _, _, _)
MarshalValue(v, pretty, depth) ==
    IF v.t = "null" THEN Str.null
    ELSE IF v.t = "bool" THEN
        IF v.b THEN Str.true ELSE Str.false
    ELSE IF v.t = "num" THEN Digits(v.n)
    ELSE IF v.t = "str" THEN <<Ch.quote>> \o v.s \o <<Ch.quote>>
    ELSE IF v.t = "arr" THEN
        IF Len(v.a) = 0 THEN <<Ch.lbrack, Ch.rbrack>>
        ELSE <<Ch.lbrack>> \o MarshalItems(v, <<>>, 1, pretty, depth + 1)
             \o NewLine(pretty, depth) \o <<Ch.rbrack>>
    ELSE
        IF DOMAIN v.o = {} THEN <<Ch.lbrace, Ch.rbrace>>
        ELSE <<Ch.lbrace>> \o MarshalItems(v, SortKeys(DOMAIN v.o), 1, pretty, depth + 1)
             \o NewLine(pretty, depth) \o <<Ch.rbrace>>

\* the items of array or object v from index i on
MarshalItems(v, keys, i, pretty, depth) ==
    LET n == IF v.t = "arr" THEN Len(v.a) ELSE Len(keys)
        item == IF v.t = "arr" THEN MarshalValue(v.a[i], pretty, depth)
                ELSE <<Ch.quote>> \o keys[i] \o <<Ch.quote, Ch.colon>>
                     \o (IF pretty THEN <<Ch.space>> ELSE <<>>)
                     \o MarshalValue(v.o[keys[i]], pretty, depth)
    IN  IF i > n THEN <<>>
        ELSE NewLine(pretty, depth) \o item
             \o (IF i < n THEN <<Ch.comma>> ELSE <<>>)
             \o MarshalItems(v, keys, i + 1, pretty, depth)

\* json.Marshal(v)
Marshal(v) == MarshalValue(v, FALSE, 0)

\* json.Indent of a compact JSON text that stands `depth` levels deep in the
\* document being indented
Indent(text, depth) == MarshalValue(Unmarshal(text).v, TRUE, depth)

(***************************************************************************)
(* package storage.                                                        *)
(***************************************************************************)
\* the second half of MarshalJSON: jsonValue is json.Unmarshal(rb, &jsonValue)
marshalParsed(rb, jsonValue) ==
    IF jsonValue.ok THEN Marshal(jsonValue.v)
    ELSE Marshal([t |-> "str", s |-> EncodeToString(rb)])

\* ResponseBody.MarshalJSON: the JSON text of the body field
MarshalJSON(rb) ==
    IF Len(rb) = 0 THEN Str.null ELSE marshalParsed(rb, Unmarshal(rb))

\* the string taken as it stands, never decoded
plainAlways(str, decoded) == str

\* the base64 branch of UnmarshalJSON
decodeOrPlain(str, decoded) == IF decoded.ok THEN decoded.bytes ELSE str

\* UnmarshalJSON, u being the value of data
unmarshalParsed(data, u) ==
    IF u.ok /\ u.v.t = "str" THEN decodeOrPlain(u.v.s, DecodeString(u.v.s))
    ELSE IF u.ok /\ u.v.t = "null" THEN <<>>
    ELSE data

\* ResponseBody.UnmarshalJSON: data is the JSON text of the body field.
\* json.Unmarshal(data, &str) succeeds on a JSON string and on null (which
\* leaves str empty), and fails on every other value.
UnmarshalJSON(data) == unmarshalParsed(data, Unmarshal(data))

\* A file of the store directory.  A record file is the JSON document of a
\* CachedResponse, kept by field: the strings as they decode, the body as
\* the JSON text of its field.
NoFile == [kind |-> "none"]

\* an empty, truncated or otherwise undecodable file
Garbage == [kind |-> "garbage"]

\* a directory of the file's name: os.Stat succeeds, os.ReadFile and
\* os.WriteFile fail
Directory == [kind |-> "dir"]

\* the strings of a header map as they come back from the JSON document
HeadersToValidUTF8(h) ==
    [k \in DOMAIN h |-> [i \in 1..Len(h[k]) |-> ToValidUTF8(h[k][i])]]

\* json.MarshalIndent(response, "", "  ")
MarshalIndent(response) ==
    [kind |-> "record",
     method |-> ToValidUTF8(response.Method),
     path |-> ToValidUTF8(response.Path),
     status_code |-> response.StatusCode,
     headers |-> HeadersToValidUTF8(response.Headers),
     body |-> Indent(MarshalJSON(response.Body), 1)]

\* Exists answering yes for a file that is not there
ExistsAlways(st, hash) == TRUE

\* Storage.Exists: os.Stat succeeds
Exists(st, hash) == st[hash].kind # "none"

\* a decoding failure reported as the failure of a missing file
decodeAsNotFound(data) ==
    IF data.kind = "garbage" \/ ~Unmarshal(data.body).ok
    THEN [ok |-> FALSE, err |-> Str.errRead, cause |-> "ErrNotExist"]
    ELSE [ok |-> TRUE,
          cached |-> [Method |-> data.method,
                      Path |-> data.path,
                      StatusCode |-> data.status_code,
                      Headers |-> data.headers,
                      Body |-> UnmarshalJSON(data.body)]]

\* json.Unmarshal(data, &cached) of Load
decodeFile(data) ==
    IF data.kind = "garbage" \/ ~Unmarshal(data.body).ok
    THEN [ok |-> FALSE, err |-> Str.errUnmarshal]
    ELSE [ok |-> TRUE,
          cached |-> [Method |-> data.method,
                      Path |-> data.path,
                      StatusCode |-> data.status_code,
                      Headers |-> data.headers,
                      Body |-> UnmarshalJSON(data.body)]]

\* Storage.Load; the read error wraps the error of os.ReadFile (cause)
Load(st, hash) ==
    IF st[hash].kind = "none"
    THEN [ok |-> FALSE, err |-> Str.errRead, cause |-> "ErrNotExist"]
    ELSE IF st[hash].kind = "dir"
    THEN [ok |-> FALSE, err |-> Str.errRead, cause |-> "EISDIR"]
    ELSE decodeFile(st[hash])

\* what os.WriteFile can do to the file: write it whole, fail before
\* touching it, or fail after truncating it
WriteOutcomes == {"written", "untouched", "truncated"}

\* Storage.Save, with the outcome of os.WriteFile
Save(st, hash, response, write) ==
    [store |-> IF write = "written" THEN [st EXCEPT ![hash] = MarshalIndent(response)]
               ELSE IF write = "truncated" THEN [st EXCEPT ![hash] = Garbage]
               ELSE st,
     err |-> write # "written"]

(***************************************************************************)
(* package hash.  The SHA-256 digest is taken to be injective: a           *)
(* fingerprint is the byte sequence fed to the hash.                       *)
(***************************************************************************)
\* a fingerprint that leaves the method out
generateWithoutMethod(method, path, body) == path \o <<Ch.colon>> \o body

Generate(method, path, body) ==
    method \o <<Ch.colon>> \o path \o <<Ch.colon>> \o body

(***************************************************************************)
(* net/http: http.Header, a map from header name to the list of values.    *)
(***************************************************************************)
IsUpper(c) == c >= 65 /\ c <= 90

IsLower(c) == c >= 97 /\ c <= 122

\* letters, digits and '-' (the other token characters do not occur)
IsTokenByte(c) == IsUpper(c) \/ IsLower(c) \/ IsDigit(c) \/ c = Ch.dash

CanonicalMIMEHeaderKey(s) ==
    IF \E i \in 1..Len(s) : ~IsTokenByte(s[i]) THEN s
    ELSE [i \in 1..Len(s) |->
            IF i = 1 \/ s[i - 1] = Ch.dash
            THEN (IF IsLower(s[i]) THEN s[i] - 32 ELSE s[i])
            ELSE (IF IsUpper(s[i]) THEN s[i] + 32 ELSE s[i])]

HeaderGet(h, key) ==
    LET k == CanonicalMIMEHeaderKey(key)
    IN  IF k \in DOMAIN h /\ Len(h[k]) > 0 THEN h[k][1] ELSE <<>>

HeaderSet(h, key, value) ==
    LET k == CanonicalMIMEHeaderKey(key)
    IN  [x \in DOMAIN h \cup {k} |-> IF x = k THEN <<value>> ELSE h[x]]

HeaderAdd(h, key, value) ==
    LET k == CanonicalMIMEHeaderKey(key)
    IN  [x \in DOMAIN h \cup {k} |->
            IF x = k THEN (IF k \in DOMAIN h THEN Append(h[k], value) ELSE <<value>>)
            ELSE h[x]]

HeaderDel(h, key) ==
    [x \in DOMAIN h \ {CanonicalMIMEHeaderKey(key)} |-> h[x]]

(***************************************************************************)
(* net/http: the server's http.ResponseWriter, the sink a handler writes   *)
(* to.  header is the handler's header map; sent is the copy taken when    *)
(* the status is committed; info lists the informational (1xx) responses;  *)
(* writes lists the byte slices the handler passed to Write, accepted or   *)
(* not; panicked: WriteHeader was given a code it rejects and the handler  *)
(* was aborted.                                                            *)
(***************************************************************************)
NewResponseWriter ==
    [header |-> <<>>, wroteHeader |-> FALSE, status |-> 0, sent |-> <<>>,
     body |-> <<>>, info |-> <<>>, panicked |-> FALSE, writes |-> <<>>,
     calls |-> <<>>]

\* bodies are forbidden for 1xx, 204 and 304
bodyAllowedForStatus(status) ==
    ~((status >= 100 /\ status <= 199) \/ status = 204 \/ status = 304)

\* the status line and the header sent, unless sent already
commitHeader(w, code) ==
    IF w.panicked \/ w.wroteHeader THEN w
    ELSE IF code < 100 \/ code > 999 THEN [w EXCEPT !.panicked = TRUE]
    ELSE IF code >= 100 /\ code <= 199 /\ code # 101
         THEN [w EXCEPT !.info = Append(@, [code |-> code, header |-> w.header])]
    ELSE [w EXCEPT !.wroteHeader = TRUE, !.status = code, !.sent = w.header]

\* w.WriteHeader(code); calls: the calls w has received, in order
sinkWriteHeader(w, code) ==
    commitHeader([w EXCEPT !.calls = Append(@, [op |-> "WriteHeader", code |-> code])],
                 code)

\* what w.Write(b) returns: n and err
sinkWriteResult(w, b) ==
    LET status == IF w.wroteHeader THEN w.status ELSE 200
    IN  IF Len(b) > 0 /\ ~w.panicked /\ ~bodyAllowedForStatus(status)
        THEN [n |-> 0, err |-> "ErrBodyNotAllowed"]
        ELSE [n |-> Len(b), err |-> "nil"]

\* w.Write(b)
sinkWrite(w, b) ==
    LET w1 == [(IF w.wroteHeader THEN w ELSE commitHeader(w, 200))
                  EXCEPT !.writes = Append(@, b),
                         !.calls = Append(@, [op |-> "Write", b |-> b])]
    IN  IF w.panicked \/ Len(b) = 0 \/ ~bodyAllowedForStatus(w1.status) THEN w1
        ELSE [w1 EXCEPT !.body = @ \o b]

\* the server, once the handler has returned
finishRequest(w) == IF w.wroteHeader THEN w ELSE commitHeader(w, 200)

\* what the client receives
ClientResponse(w) ==
    LET f == finishRequest(w)
    IN  [status |-> f.status, header |-> f.sent, body |-> f.body, info |-> f.info,
         aborted |-> f.panicked]

\* http.Error(w, msg, code)
Error(w, msg, code) ==
    LET h1 == HeaderDel(w.header, Str.ContentLength)
        h2 == HeaderSet(h1, Str.ContentType, Str.textPlain)
        h3 == HeaderSet(h2, Str.XContentTypeOptions, Str.nosniff)
    IN  sinkWrite(sinkWriteHeader([w EXCEPT !.header = h3], code), msg \o <<Ch.lf>>)

(***************************************************************************)
(* package proxy: responseCapturer.                                        *)
(***************************************************************************)
\* the capturer handleRecord creates around w
NewCapturer(w) ==
    [ResponseWriter |-> w, statusCode |-> 200, headers |-> <<>>, body |-> <<>>]

\* responseCapturer.Header
Header(rc) == rc.ResponseWriter.header

\* WriteHeader keeping the code and the headers without telling the sink
writeHeaderUnforwarded(rc, code) ==
    LET header == rc.ResponseWriter.header
    IN  [rc EXCEPT !.statusCode = code,
                   !.headers = [key \in DOMAIN rc.headers \cup DOMAIN header |->
                                   IF key \in DOMAIN header THEN header[key]
                                   ELSE rc.headers[key]]]

\* responseCapturer.WriteHeader
WriteHeader(rc, code) ==
    LET header == rc.ResponseWriter.header
    IN  [rc EXCEPT !.statusCode = code,
                   !.headers = [key \in DOMAIN rc.headers \cup DOMAIN header |->
                                   IF key \in DOMAIN header THEN header[key]
                                   ELSE rc.headers[key]],
                   !.ResponseWriter = sinkWriteHeader(@, code)]

\* Write keeping the last chunk only
writeReplacing(rc, b) ==
    [rc EXCEPT !.body = b, !.ResponseWriter = sinkWrite(@, b)]

\* responseCapturer.Write
Write(rc, b) ==
    [rc EXCEPT !.body = @ \o b, !.ResponseWriter = sinkWrite(@, b)]

\* what responseCapturer.Write returns: what the sink's Write returns
WriteResult(rc, b) == sinkWriteResult(rc.ResponseWriter, b)

(***************************************************************************)
(* package proxy: stripConditionalHeaders and the proxy's Director.        *)
(***************************************************************************)
conditionalHeaders ==
    <<Str.IfNoneMatch, Str.IfModifiedSince, Str.IfRange, Str.IfMatch,
      Str.IfUnmodifiedSince>>

\* the loop over conditionalHeaders, from index i on
RECURSIVE stripLoop(_, _, _)
stripLoop(header, stripped, i) ==
    IF i > Len(conditionalHeaders) THEN [header |-> header, stripped |-> stripped]
    ELSE IF HeaderGet(header, conditionalHeaders[i]) # <<>>
         THEN stripLoop(HeaderDel(header, conditionalHeaders[i]), TRUE, i + 1)
    ELSE stripLoop(header, stripped, i + 1)

\* stripConditionalHeaders reporting true whatever it did
stripReportingAlways(header) ==
    [header |-> IF HeaderGet(stripLoop(header, FALSE, 1).header, Str.CacheControl)
                       \in {Str.noCache, Str.maxAge0}
                THEN HeaderDel(stripLoop(header, FALSE, 1).header, Str.CacheControl)
                ELSE stripLoop(header, FALSE, 1).header,
     stripped |-> TRUE]

\* stripConditionalHeaders(req), on the header map of req
stripConditionalHeaders(header) ==
    LET r == stripLoop(header, FALSE, 1)
        cacheControl == HeaderGet(r.header, Str.CacheControl)
    IN  IF cacheControl = Str.noCache \/ cacheControl = Str.maxAge0
        THEN [header |-> HeaderDel(r.header, Str.CacheControl), stripped |-> TRUE]
        ELSE r

\* proxy.Director: the request as it leaves for the backend
Director(m, req) ==
    IF m = "record"
    THEN [req EXCEPT !.header = stripConditionalHeaders(req.header).header]
    ELSE req

(***************************************************************************)
(* net/http/httputil: ReverseProxy.ServeHTTP(rw, req), as the calls it     *)
(* makes on rw for an outcome of the round trip to the backend: 502 when   *)
(* the backend cannot be reached, else the response's headers copied into  *)
(* rw.Header(), its status written and its body written chunk by chunk.    *)
(***************************************************************************)
\* the round trip failed: the backend could not be reached
Unreachable == [err |-> TRUE, status |-> 0, header |-> <<>>, chunks |-> <<>>]

\* the backend's response, its body arriving in chunks
Response(status, header, chunks) ==
    [err |-> FALSE, status |-> status, header |-> header, chunks |-> chunks]

\* the calls ReverseProxy.ServeHTTP makes on rw
ProxyCalls(outcome) ==
    IF outcome.err
    THEN <<[op |-> "WriteHeader", code |-> 502, src |-> <<>>, b |-> <<>>]>>
    ELSE <<[op |-> "Header", code |-> 0, src |-> outcome.header, b |-> <<>>],
           [op |-> "WriteHeader", code |-> outcome.status, src |-> <<>>, b |-> <<>>]>>
         \o [i \in 1..Len(outcome.chunks) |->
                [op |-> "Write", code |-> 0, src |-> <<>>, b |-> outcome.chunks[i]]]

\* httputil's copyHeader(dst, src): every value of src added to dst
copyHeader(dst, src) ==
    [k \in DOMAIN dst \cup DOMAIN src |->
        (IF k \in DOMAIN dst THEN dst[k] ELSE <<>>)
        \o (IF k \in DOMAIN src THEN src[k] ELSE <<>>)]

\* the proxy's calls made on the capturer (record mode)
RECURSIVE proxyServeCapturer(_, _)
proxyServeCapturer(rc, calls) ==
    IF Len(calls) = 0 THEN rc
    ELSE LET c == Head(calls)
             rc2 == IF c.op = "Header"
                    THEN [rc EXCEPT !.ResponseWriter.header = copyHeader(Header(rc), c.src)]
                    ELSE IF c.op = "WriteHeader" THEN WriteHeader(rc, c.code)
                    ELSE Write(rc, c.b)
         IN  proxyServeCapturer(rc2, Tail(calls))

\* the proxy's calls made on the server's writer itself (passthrough mode)
RECURSIVE proxyServeWriter(_, _)
proxyServeWriter(w, calls) ==
    IF Len(calls) = 0 THEN w
    ELSE LET c == Head(calls)
             w2 == IF c.op = "Header"
                   THEN [w EXCEPT !.header = copyHeader(w.header, c.src)]
                   ELSE IF c.op = "WriteHeader" THEN sinkWriteHeader(w, c.code)
                   ELSE sinkWrite(w, c.b)
         IN  proxyServeWriter(w2, Tail(calls))

(***************************************************************************)
(* package proxy: the handlers.                                            *)
(***************************************************************************)
\* the inner loop of handleReplay: values[i] and the values after it added
\* the values after the first set one over the other, the last one staying
addValuesSetting(h, key, values, i) ==
    IF i > Len(values) THEN h ELSE HeaderSet(h, key, values[Len(values)])

RECURSIVE addValues(_, _, _, _)
addValues(h, key, values, i) ==
    IF i > Len(values) THEN h
    ELSE addValues(HeaderAdd(h, key, values[i]), key, values, i + 1)

\* the loop of handleReplay over cached.Headers, keys being the keys not
\* yet visited
RECURSIVE replayHeaders(_, _, _)
replayHeaders(h, Headers, keys) ==
    IF Len(keys) = 0 THEN h
    ELSE LET key == Head(keys)
             values == Headers[key]
         IN  IF key = Str.ContentLength \/ Len(values) = 0
             THEN replayHeaders(h, Headers, Tail(keys))
             ELSE replayHeaders(addValues(HeaderSet(h, key, values[1]), key, values, 2),
                                Headers, Tail(keys))

\* what handling a request leaves behind: the writer, the store directory,
\* the requests sent to the backend, the fingerprint computed, the record
\* built and whether saving it failed
Handled(w, st, forwarded, requestHash, cached, saveErr) ==
    [w |-> w, store |-> st, forwarded |-> forwarded, hash |-> requestHash,
     cached |-> cached, saveErr |-> saveErr]

NoCached == [Method |-> <<>>, Path |-> <<>>, StatusCode |-> 0, Headers |-> <<>>,
             Body |-> <<>>]

\* handleReplay: statusAllowsBody
statusAllowsBody(StatusCode) ==
    ~(StatusCode = 204 \/ StatusCode = 304 \/ (StatusCode >= 100 /\ StatusCode < 200))

\* handleReplay: the body written after the status, unless WriteHeader
\* aborted the handler
replayBody(w, cached) ==
    IF w.panicked THEN w
    ELSE IF statusAllowsBody(cached.StatusCode) /\ Len(cached.Body) > 0
            /\ cached.Body # Str.null
         THEN sinkWrite(w, cached.Body)
    ELSE w

\* handleReplay from the header loop on, cached being the record loaded
replayCached(w, cached) ==
    replayBody(sinkWriteHeader([w EXCEPT !.header =
                                   replayHeaders(w.header, cached.Headers,
                                                 SortKeys(DOMAIN cached.Headers))],
                               cached.StatusCode),
               cached)

\* handleReplay after h.storage.Load
replayLoaded(w, loaded) ==
    IF ~loaded.ok THEN Error(w, Str.msgLoad \o loaded.err, 500)
    ELSE replayCached(w, loaded.cached)

\* handleReplay asking the backend when nothing is stored
handleReplayForwarding(w, st, r, requestHash) ==
    Handled(IF ~Exists(st, requestHash)
            THEN proxyServeWriter(w, ProxyCalls(Unreachable))
            ELSE replayLoaded(w, Load(st, requestHash)),
            st,
            IF ~Exists(st, requestHash) THEN <<Director("replay", r)>> ELSE <<>>,
            requestHash, NoCached, FALSE)

\* handleReplay removing a file that does not load
handleReplayEvicting(w, st, r, requestHash) ==
    Handled(IF ~Exists(st, requestHash)
            THEN Error(w, Str.msgNoCached \o requestHash \o Str.closeParen, 404)
            ELSE replayLoaded(w, Load(st, requestHash)),
            IF Exists(st, requestHash) /\ ~Load(st, requestHash).ok
            THEN [st EXCEPT ![requestHash] = NoFile] ELSE st,
            <<>>, requestHash, NoCached, FALSE)

\* Handler.handleReplay
handleReplay(w, st, r, requestHash) ==
    Handled(IF ~Exists(st, requestHash)
            THEN Error(w, Str.msgNoCached \o requestHash \o Str.closeParen, 404)
            ELSE replayLoaded(w, Load(st, requestHash)),
            st, <<>>, requestHash, NoCached, FALSE)

\* the record taking the sink's header map itself, not the capturer's copy
capturedLive(r, capturer) ==
    [Method |-> r.method,
     Path |-> r.path,
     StatusCode |-> capturer.statusCode,
     Headers |-> Header(capturer),
     Body |-> capturer.body]

\* the record taking the path with the query string
capturedWithQuery(r, capturer) ==
    [Method |-> r.method,
     Path |-> r.path \o <<Ch.question>> \o r.query,
     StatusCode |-> capturer.statusCode,
     Headers |-> capturer.headers,
     Body |-> capturer.body]

\* handleRecord: the CachedResponse built from the capturer
capturedResponse(r, capturer) ==
    [Method |-> r.method,
     Path |-> r.path,
     StatusCode |-> capturer.statusCode,
     Headers |-> capturer.headers,
     Body |-> capturer.body]

\* handleRecord answering a failed save with an error response
recordSavedOrError(w, r, requestHash, cached, sv) ==
    Handled(IF sv.err THEN Error(w, Str.msgLoad, 500) ELSE w,
            sv.store, <<Director("record", r)>>, requestHash, cached, sv.err)

\* handleRecord after h.storage.Save: a failure is logged, nothing else
recordSaved(w, r, requestHash, cached, sv) ==
    Handled(w, sv.store, <<Director("record", r)>>, requestHash, cached, sv.err)

\* handleRecord after h.proxy.ServeHTTP(capturer, r)
recordCaptured(capturer, st, r, requestHash, write) ==
    recordSaved(capturer.ResponseWriter, r, requestHash, capturedResponse(r, capturer),
                Save(st, requestHash, capturedResponse(r, capturer), write))

\* handleRecord saving what the capturer holds before the proxy has run
handleRecordSavingFirst(w, st, r, requestHash, outcome, write) ==
    recordSaved(proxyServeCapturer(NewCapturer(w), ProxyCalls(outcome)).ResponseWriter,
                r, requestHash, capturedResponse(r, NewCapturer(w)),
                Save(st, requestHash, capturedResponse(r, NewCapturer(w)), write))

\* Handler.handleRecord, for an outcome of the round trip to the backend and
\* an outcome of the file write
handleRecord(w, st, r, requestHash, outcome, write) ==
    recordCaptured(proxyServeCapturer(NewCapturer(w), ProxyCalls(outcome)),
                   st, r, requestHash, write)

\* handlePassthrough capturing and saving as handleRecord does
handlePassthroughSaving(w, st, r, requestHash, outcome) ==
    handleRecord(w, st, r, requestHash, outcome, "written")

\* Handler.handlePassthrough
handlePassthrough(w, st, r, requestHash, outcome) ==
    Handled(proxyServeWriter(w, ProxyCalls(outcome)), st,
            <<Director("passthrough", r)>>, requestHash, NoCached, FALSE)

\* the switch of ServeHTTP on h.mode
serveMode(m, w, st, r, requestHash, outcome, write) ==
    IF m = "replay" THEN handleReplay(w, st, r, requestHash)
    ELSE IF m = "record" THEN handleRecord(w, st, r, requestHash, outcome, write)
    ELSE handlePassthrough(w, st, r, requestHash, outcome)

\* ServeHTTP going on with the request when its body could not be read
serveUnread(m, st, r, readable, outcome, write) ==
    serveMode(m, NewResponseWriter, st, r, Generate(r.method, r.path, r.body),
              outcome, write)

\* Handler.ServeHTTP.  readable: whether io.ReadAll(r.Body) succeeds.
ServeHTTP(m, st, r, readable, outcome, write) ==
    IF ~readable
    THEN Handled(Error(NewResponseWriter, Str.msgReadBody, 500), st, <<>>, <<>>,
                 NoCached, FALSE)
    ELSE serveMode(m, NewResponseWriter, st, r, Generate(r.method, r.path, r.body),
                   outcome, write)

(***************************************************************************)
(* The inputs of the model.                                                *)
(***************************************************************************)
Modes == {"record", "replay", "passthrough"}

Body == [empty |-> <<>>,
         one |-> <<49>>,
         jsonObject |-> <<123, 34, 65, 34, 58, 49, 125>>,
         jsonArray |-> <<91, 49, 44, 34, 65, 34, 93>>,
         jsonString |-> <<34, 65, 34>>,
         jsonB64String |-> <<34, 81, 85, 74, 68, 34>>,
         jsonTrue |-> <<116, 114, 117, 101>>,
         jsonNull |-> Str.null,
         binary |-> <<0, 255>>,
         h |-> <<104>>,
         i |-> <<105>>,
         five |-> <<53>>,
         b64hi |-> <<34, 97, 71, 107, 61, 34>>,
         b64null |-> <<34, 98, 110, 86, 115, 98, 65, 61, 61, 34>>]

\* the inbound requests of Spec: two fingerprints, one request carrying a
\* validator
RequestA ==
    [method |-> Str.GET, path |-> Str.pathA, body |-> Body.empty,
     header |-> (Str.IfNoneMatch :> <<Str.etag1>>)]

RequestB ==
    [method |-> Str.POST, path |-> Str.pathA, body |-> Body.one, header |-> <<>>]

Requests == {RequestA, RequestB}

Keys == {Generate(r.method, r.path, r.body) : r \in Requests}

\* what the round trip to the backend can yield
BackendOutcomes ==
    {Unreachable,
     Response(200, (Str.ContentType :> <<Str.appJSON>>) @@ (Str.ContentLength :> <<Body.five>>),
              <<Body.jsonObject>>),
     Response(200, (Str.XMulti :> <<Body.h, <<255>>>>), <<<<0>>, <<255>>>>),
     Response(200, <<>>, <<Body.jsonString>>),
     Response(204, <<>>, <<>>)}

PassthroughOutcomes ==
    {Unreachable, Response(200, (Str.XMulti :> <<Body.h, Body.i>>), <<Body.h, Body.i>>)}

(***************************************************************************)
(* The state machine.  mode is the configured mode of the running process, *)
(* store the store directory, last the operation performed last with what  *)
(* was observed of it, saved (history) the record and fingerprint of the   *)
(* latest save, when it succeeded, pending the call of os.WriteFile that   *)
(* is under way, when its steps are taken one by one.                      *)
(***************************************************************************)
NoRequest ==
    [op |-> "none", req |-> <<>>, hash |-> <<>>, resp |-> ClientResponse(NewResponseWriter),
     writes |-> <<>>, forwarded |-> <<>>, outcome |-> Unreachable, cached |-> NoCached,
     saveErr |-> FALSE]

NotSaved == [ok |-> FALSE, hash |-> <<>>, cached |-> NoCached]

\* no call of os.WriteFile is under way
NoPending == [open |-> FALSE]

EmptyStore == [k \in Keys |-> NoFile]

Init ==
    /\ mode \in Modes
    /\ store = EmptyStore
    /\ last = NoRequest
    /\ saved = NotSaved
    /\ pending = NoPending

Observe(op, r, res, outcome) ==
    [op |-> op, req |-> r, hash |-> res.hash, resp |-> ClientResponse(res.w),
     writes |-> res.w.writes, forwarded |-> res.forwarded, outcome |-> outcome,
     cached |-> res.cached, saveErr |-> res.saveErr]

\* a request handled in replay mode
Replay(r) ==
    /\ mode = "replay"
    /\ \E res \in {ServeHTTP(mode, store, r, TRUE, Unreachable, "untouched")} :
          /\ last' = Observe("replay", r, res, Unreachable)
          /\ store' = res.store
    /\ UNCHANGED <<mode, saved, pending>>

\* a request handled in record mode
Record(r, outcome, write) ==
    /\ mode = "record"
    /\ \E res \in {ServeHTTP(mode, store, r, TRUE, outcome, write)} :
          /\ last' = Observe("record", r, res, outcome)
          /\ store' = res.store
          /\ saved' = IF ~res.saveErr
                      THEN [ok |-> TRUE, hash |-> res.hash, cached |-> res.cached]
                      ELSE IF saved.hash = res.hash THEN NotSaved
                      ELSE saved
    /\ UNCHANGED <<mode, pending>>

\* a request handled in passthrough mode
Passthrough(r, outcome) ==
    /\ mode = "passthrough"
    /\ \E res \in {ServeHTTP(mode, store, r, TRUE, outcome, "untouched")} :
          /\ last' = Observe("passthrough", r, res, outcome)
          /\ store' = res.store
    /\ UNCHANGED <<mode, saved, pending>>

\* a request whose body cannot be read, in any mode
UnreadableBody(r) ==
    /\ \E res \in {ServeHTTP(mode, store, r, FALSE, Unreachable, "untouched")} :
          /\ last' = Observe("unreadable", r, res, Unreachable)
          /\ store' = res.store
    /\ UNCHANGED <<mode, saved, pending>>

\* the process is stopped and started again in another mode; the store
\* directory stays, no request is in hand
Restart(m) ==
    /\ m # mode
    /\ mode' = m
    /\ last' = NoRequest
    /\ UNCHANGED <<store, saved, pending>>

Next ==
    \/ \E r \in Requests : Replay(r)
    \/ \E r \in Requests, outcome \in BackendOutcomes, write \in WriteOutcomes :
          Record(r, outcome, write)
    \/ \E r \in Requests, outcome \in PassthroughOutcomes : Passthrough(r, outcome)
    \/ \E r \in Requests : UnreadableBody(r)
    \/ \E m \in Modes : Restart(m)

Spec == Init /\ [][Next]_vars
(***************************************************************************)
(* SpecCodec: the store's codec alone.  A body is drawn, saved under one   *)
(* fingerprint as the body of a record, and loaded back.                   *)
(***************************************************************************)
\* the bytes bodies are made of: NUL, '"', '1', 'A', '[', ']' and 0xFF
CodecAlphabet == {0, 34, 49, 65, 91, 93, 255}

CodecBodies ==
    SeqsUpTo(CodecAlphabet, MaxBodyLen)
    \cup {Body.jsonObject, Body.jsonArray, Body.jsonB64String, Body.jsonTrue,
          Body.jsonNull, Body.b64hi, Body.b64null, Body.five}

CodecKey == Generate(RequestA.method, RequestA.path, RequestA.body)

CodecRecord(body) ==
    [Method |-> RequestA.method, Path |-> RequestA.path, StatusCode |-> 200,
     Headers |-> <<>>, Body |-> body]

InitCodec ==
    /\ mode = "record"
    /\ store = EmptyStore
    /\ saved = NotSaved
    /\ pending = NoPending
    /\ last \in {[op |-> "body", body |-> b] : b \in CodecBodies}

\* Storage.Save of a record with the body drawn
StoreSave ==
    /\ last.op = "body"
    /\ store' = Save(store, CodecKey, CodecRecord(last.body), "written").store
    /\ last' = [op |-> "saved", body |-> last.body]
    /\ UNCHANGED <<mode, saved, pending>>

\* Storage.Load of the fingerprint saved
StoreLoad ==
    /\ last.op = "saved"
    /\ last' = [op |-> "loaded", body |-> last.body, loaded |-> Load(store, CodecKey)]
    /\ UNCHANGED <<mode, store, saved, pending>>

NextCodec == StoreSave \/ StoreLoad

SpecCodec == InitCodec /\ [][NextCodec]_vars

(***************************************************************************)
(* SpecStrip: requests carrying validators and Cache-Control, handled in   *)
(* record mode and in passthrough mode.  The server hands the handler      *)
(* header names in canonical form; a value may be empty, a header may      *)
(* have several values.                                                    *)
(***************************************************************************)
ValidatorValues ==
    {<<Str.etag1>>, <<<<>>>>, <<<<>>, Str.etag1>>, <<Str.etag1, Str.etag1>>}

CacheControlValues ==
    {<<Str.noCache>>, <<Str.maxAge0>>, <<Str.noCacheNoStore>>, <<Str.maxAge60>>,
     <<Str.maxAge60, Str.noCache>>, <<<<>>, Str.maxAge0>>}

ConditionalNames == {conditionalHeaders[i] : i \in 1..Len(conditionalHeaders)}

StripHeaders ==
    {validators @@ cacheControl @@ (Str.Accept :> <<Str.appJSON>>) :
        validators \in {<<>>, [n \in ConditionalNames |-> <<Str.etag1>>]}
                       \cup {n :> v : n \in ConditionalNames, v \in ValidatorValues},
        cacheControl \in {<<>>} \cup {Str.CacheControl :> v : v \in CacheControlValues}}

StripRequests == {[RequestA EXCEPT !.header = h] : h \in StripHeaders}

StripOutcome == Response(200, <<>>, <<Body.jsonObject>>)

InitStrip ==
    /\ mode \in {"record", "passthrough"}
    /\ store = EmptyStore
    /\ last = NoRequest
    /\ saved = NotSaved
    /\ pending = NoPending

NextStrip ==
    \/ \E r \in StripRequests : Record(r, StripOutcome, "written")
    \/ \E r \in StripRequests : Passthrough(r, StripOutcome)

SpecStrip == InitStrip /\ [][NextStrip]_vars

(***************************************************************************)
(* SpecReplay: replay mode over a store directory whose file for one       *)
(* fingerprint was put there by hand: any status, a body where the status  *)
(* forbids one, header names in any case, an undecodable file.             *)
(***************************************************************************)
RecordFile(status, headers, bodyField) ==
    [kind |-> "record", method |-> RequestA.method, path |-> RequestA.path,
     status_code |-> status, headers |-> headers, body |-> bodyField]

\* 0: the file has no status_code field
FileStatuses == {0, 100, 200, 204, 304, 404}

FileHeaders ==
    {<<>>,
     Str.ContentType :> <<Str.appJSON>>,
     (Str.ContentLength :> <<Body.five>>) @@ (Str.ContentType :> <<Str.appJSON>>),
     (Str.contentLengthLower :> <<Body.five>>) @@ (Str.XMulti :> <<Body.h, Body.i>>)}

\* the body field: null, base64 of "hi", base64 of "null", a JSON object
FileBodies == {Str.null, Body.b64hi, Body.b64null, Body.jsonObject}

EditedFiles ==
    {RecordFile(status, headers, bodyField) :
        status \in FileStatuses, headers \in FileHeaders, bodyField \in FileBodies}
    \cup {Garbage, NoFile, Directory}

InitReplay ==
    /\ mode = "replay"
    /\ store \in {[EmptyStore EXCEPT ![CodecKey] = f] : f \in EditedFiles}
    /\ last = NoRequest
    /\ saved = NotSaved
    /\ pending = NoPending

NextReplay == \E r \in Requests : Replay(r)

SpecReplay == InitReplay /\ [][NextReplay]_vars

(***************************************************************************)
(* SpecStore: package storage with the steps of os.WriteFile taken one by  *)
(* one, a Load running between them.  os.WriteFile opens the file with     *)
(* O_CREATE|O_TRUNC, which leaves it empty, then writes the data and       *)
(* closes it.  Until the data is written whole the file is empty or holds  *)
(* a strict prefix of a JSON object, neither of which decodes: Garbage.    *)
(* The directory may hold any file to begin with.                          *)
(***************************************************************************)
StoreRecords ==
    {[Method |-> RequestA.method, Path |-> RequestA.path, StatusCode |-> 200,
      Headers |-> headers, Body |-> body] :
        headers \in {<<>>, Str.ContentType :> <<Str.appJSON>>},
        body \in {Body.empty, Body.jsonObject, Body.binary}}

\* the files the directory may hold to begin with
StoreFiles ==
    {NoFile, Garbage, Directory,
     RecordFile(200, <<>>, <<Ch.lbrace>>),
     RecordFile(200, Str.ContentType :> <<Str.appJSON>>, Body.b64hi),
     RecordFile(404, <<>>, Str.null)}

InitStore ==
    /\ mode = "record"
    /\ store \in {[EmptyStore EXCEPT ![CodecKey] = f] : f \in StoreFiles}
    /\ last = NoRequest
    /\ saved = NotSaved
    /\ pending = NoPending

\* Storage.Save up to the opening of the file: the document is marshalled
\* and the file created or truncated
SaveOpen(hash, response) ==
    /\ ~pending.open
    /\ store[hash].kind # "dir"
    /\ pending' = [open |-> TRUE, hash |-> hash, data |-> MarshalIndent(response),
                   prior |-> store[hash]]
    /\ store' = [store EXCEPT ![hash] = Garbage]
    /\ UNCHANGED <<mode, last, saved>>

\* Storage.Save from there on: the data written and the file closed
SaveWrite ==
    /\ pending.open
    /\ store' = [store EXCEPT ![pending.hash] = pending.data]
    /\ pending' = NoPending
    /\ UNCHANGED <<mode, last, saved>>

\* Storage.Load(hash) by another goroutine or process; during: a Save of
\* the same fingerprint is under way, prior and data being the file it
\* found and the document it writes
LoadFile(hash) ==
    /\ last' = [op |-> "load", hash |-> hash, file |-> store[hash],
                exists |-> Exists(store, hash), loaded |-> Load(store, hash),
                during |-> pending.open /\ pending.hash = hash,
                prior |-> IF pending.open THEN pending.prior ELSE store[hash],
                data |-> IF pending.open THEN pending.data ELSE store[hash]]
    /\ UNCHANGED <<mode, store, saved, pending>>

NextStore ==
    \/ \E response \in StoreRecords : SaveOpen(CodecKey, response)
    \/ SaveWrite
    \/ \E hash \in Keys : LoadFile(hash)

SpecStore == InitStore /\ [][NextStore]_vars

(***************************************************************************)
(* SpecHash: hash.Generate alone, called on two triples drawn from methods,*)
(* paths and bodies, some of which contain ':'.                            *)
(***************************************************************************)
\* "/a", "/b", "/a:b", "/a:"
HashPaths == {Str.pathA, Str.pathB, <<47, 97, 58, 98>>, <<47, 97, 58>>}

\* "", "c", "b:c", ":c"
HashBodies == {<<>>, <<99>>, <<98, 58, 99>>, <<58, 99>>}

Triples ==
    {[method |-> m, path |-> p, body |-> b] :
        m \in {Str.GET, Str.POST}, p \in HashPaths, b \in HashBodies}

InitHash ==
    /\ mode = "record"
    /\ store = EmptyStore
    /\ last \in {[op |-> "triples", first |-> a, second |-> b] : a, b \in Triples}
    /\ saved = NotSaved
    /\ pending = NoPending

\* hash.Generate called on the first triple
HashFirst ==
    /\ last.op = "triples"
    /\ last' = [op |-> "first", first |-> last.first, second |-> last.second,
                hashFirst |-> Generate(last.first.method, last.first.path,
                                       last.first.body)]
    /\ UNCHANGED <<mode, store, saved, pending>>

\* hash.Generate called on the second triple
HashSecond ==
    /\ last.op = "first"
    /\ last' = [op |-> "hashed", first |-> last.first, second |-> last.second,
                hashFirst |-> last.hashFirst,
                hashSecond |-> Generate(last.second.method, last.second.path,
                                        last.second.body)]
    /\ UNCHANGED <<mode, store, saved, pending>>

NextHash == HashFirst \/ HashSecond

SpecHash == InitHash /\ [][NextHash]_vars

(***************************************************************************)
(* SpecKey: record and replay of requests that share method, path and      *)
(* body and differ in their query string, in the spelling of the path or   *)
(* in their headers.  A request is what net/http makes of the request line *)
(* (r.URL.Path: the target before '?', percent-decoded; r.URL.RawQuery:    *)
(* the rest).                                                              *)
(***************************************************************************)
IsHex(c) == IsDigit(c) \/ (c >= 97 /\ c <= 102) \/ (c >= 65 /\ c <= 70)

Unhex(c) == IF IsDigit(c) THEN c - 48 ELSE IF c >= 97 THEN c - 87 ELSE c - 55

\* url.PathUnescape
RECURSIVE unescape(_)
unescape(s) ==
    IF Len(s) = 0 THEN <<>>
    ELSE IF Head(s) = Ch.percent /\ Len(s) >= 3 /\ IsHex(s[2]) /\ IsHex(s[3])
         THEN <<16 * Unhex(s[2]) + Unhex(s[3])>> \o unescape(Drop(s, 3))
    ELSE <<Head(s)>> \o unescape(Tail(s))

\* where the query string starts: the first '?', or past the end
QueryAt(target) ==
    IF \E i \in 1..Len(target) : target[i] = Ch.question
    THEN CHOOSE i \in 1..Len(target) :
            /\ target[i] = Ch.question
            /\ \A j \in 1..(i - 1) : target[j] # Ch.question
    ELSE Len(target) + 1

\* r.URL.Path
URLPath(target) == unescape(Take(target, QueryAt(target) - 1))

\* r.URL.RawQuery
RawQuery(target) == Drop(target, QueryAt(target))

\* the *http.Request of a request line, headers and body
ParseRequest(method, target, header, body) ==
    [method |-> method, target |-> target, path |-> URLPath(target),
     query |-> RawQuery(target), header |-> header, body |-> body]

\* /a, /a?x=1, /%61 and /b
KeyTargets ==
    {Str.pathA,
     Str.pathA \o <<Ch.question, 120, Ch.eq, 49>>,
     <<Ch.slash, Ch.percent, 54, 49>>,
     Str.pathB}

KeyHeaders == {<<>>, Str.IfNoneMatch :> <<Str.etag1>>}

KeyRequests ==
    {ParseRequest(Str.GET, target, header, body) :
        target \in KeyTargets, header \in KeyHeaders, body \in {Body.empty, Body.one}}

KeyOutcomes ==
    {Response(200, Str.ContentType :> <<Str.appJSON>>, <<Body.jsonObject>>),
     Response(404, <<>>, <<Body.h>>)}

InitKey ==
    /\ mode \in {"record", "replay"}
    /\ store = [k \in {Generate(r.method, r.path, r.body) : r \in KeyRequests} |-> NoFile]
    /\ last = NoRequest
    /\ saved = NotSaved
    /\ pending = NoPending

NextKey ==
    \/ \E r \in KeyRequests, outcome \in KeyOutcomes : Record(r, outcome, "written")
    \/ \E r \in KeyRequests : Replay(r)
    \/ \E m \in {"record", "replay"} : Restart(m)

SpecKey == InitKey /\ [][NextKey]_vars

(***************************************************************************)
(* SpecRace: two record-mode requests of one fingerprint saving at the     *)
(* same time.  os.WriteFile opens the file with O_WRONLY|O_CREATE|O_TRUNC, *)
(* writes the data from offset 0 and closes it; each writer has its own    *)
(* file offset.  The file is its bytes; pending holds, for each writer,    *)
(* how far its Save has come (pc) and the data it writes; last names the   *)
(* writer whose write came last.                                           *)
(***************************************************************************)
FieldName == [method |-> <<109, 101, 116, 104, 111, 100>>,
              path |-> <<112, 97, 116, 104>>,
              status_code |-> <<115, 116, 97, 116, 117, 115, 95, 99, 111, 100, 101>>,
              headers |-> <<104, 101, 97, 100, 101, 114, 115>>,
              body |-> <<98, 111, 100, 121>>]

\* a field of the document: its name, its value and the comma after it
Field(name, text, more) ==
    NewLine(TRUE, 1) \o <<Ch.quote>> \o name \o <<Ch.quote, Ch.colon, Ch.space>> \o text
    \o (IF more THEN <<Ch.comma>> ELSE <<>>)

\* a header map as a decoded JSON value
HeadersValue(h) ==
    [t |-> "obj",
     o |-> [k \in DOMAIN h |->
              [t |-> "arr", a |-> [i \in 1..Len(h[k]) |-> [t |-> "str", s |-> h[k][i]]]]]]

\* the bytes json.MarshalIndent(response, "", "  ") returns, doc being the
\* document
FileText(doc) ==
    <<Ch.lbrace>>
    \o Field(FieldName.method, <<Ch.quote>> \o doc.method \o <<Ch.quote>>, TRUE)
    \o Field(FieldName.path, <<Ch.quote>> \o doc.path \o <<Ch.quote>>, TRUE)
    \o Field(FieldName.status_code, Digits(doc.status_code), TRUE)
    \o Field(FieldName.headers, MarshalValue(HeadersValue(doc.headers), TRUE, 1), TRUE)
    \o Field(FieldName.body, doc.body, FALSE)
    \o <<Ch.lf, Ch.rbrace>>

Writers == {1, 2}

\* the file of the fingerprint, as bytes
FileOf(data) == [kind |-> "bytes", data |-> data]

\* data written at offset 0 of a file holding old
WriteAt0(old, data) == data \o Drop(old, Len(data))

InitRace ==
    /\ mode = "record"
    /\ store = [EmptyStore EXCEPT ![CodecKey] = FileOf(<<>>)]
    /\ last = [op |-> "race", writer |-> 0]
    /\ saved = NotSaved
    /\ pending \in [Writers -> {[pc |-> "marshalled", data |-> FileText(MarshalIndent(response))] :
                                    response \in StoreRecords}]

\* os.WriteFile of writer w: the file opened and truncated
RaceOpen(w) ==
    /\ pending[w].pc = "marshalled"
    /\ pending' = [pending EXCEPT ![w].pc = "open"]
    /\ store' = [store EXCEPT ![CodecKey] = FileOf(<<>>)]
    /\ UNCHANGED <<mode, last, saved>>

\* os.WriteFile of writer w: the data written and the file closed
RaceWrite(w) ==
    /\ pending[w].pc = "open"
    /\ pending' = [pending EXCEPT ![w].pc = "saved"]
    /\ store' = [store EXCEPT ![CodecKey] =
                    FileOf(WriteAt0(store[CodecKey].data, pending[w].data))]
    /\ last' = [op |-> "race", writer |-> w]
    /\ UNCHANGED <<mode, saved>>

NextRace == \E w \in Writers : RaceOpen(w) \/ RaceWrite(w)

SpecRace == InitRace /\ [][NextRace]_vars

(***************************************************************************)
(* SpecCapture: the responseCapturer of handleRecord under the calls of    *)
(* an http.Handler writing a response: header changes through Header(),    *)
(* WriteHeader and Write, in any order.  Beside the capturer (rc), the     *)
(* same calls are made on a server's writer of its own (plain).  log: the  *)
(* calls made; ret, plainRet: what the last call returned; record: what    *)
(* handleRecord makes of the capturer after the last call.                 *)
(***************************************************************************)
MaxCalls == 4

CaptureKeys == {Str.ContentType, Str.XMulti}

CaptureValues == {Body.h, Body.i}

\* an informational status, a status that forbids a body, a status that
\* allows one
CaptureCodes == {100, 204, 404}

CaptureChunks == {Body.h, Body.i}

\* WriteHeader returns nothing, and so does a header change
NoResult == [n |-> 0, err |-> "none"]

\* one call made on the capturer
captureCall(rc, c) ==
    IF c.op = "Set"
    THEN [rc EXCEPT !.ResponseWriter.header = HeaderSet(Header(rc), c.key, c.value)]
    ELSE IF c.op = "Del"
    THEN [rc EXCEPT !.ResponseWriter.header = HeaderDel(Header(rc), c.key)]
    ELSE IF c.op = "WriteHeader" THEN WriteHeader(rc, c.code)
    ELSE Write(rc, c.b)

captureResult(rc, c) == IF c.op = "Write" THEN WriteResult(rc, c.b) ELSE NoResult

\* the same call made on a writer without the capturer
plainCall(w, c) ==
    IF c.op = "Set" THEN [w EXCEPT !.header = HeaderSet(w.header, c.key, c.value)]
    ELSE IF c.op = "Del" THEN [w EXCEPT !.header = HeaderDel(w.header, c.key)]
    ELSE IF c.op = "WriteHeader" THEN sinkWriteHeader(w, c.code)
    ELSE sinkWrite(w, c.b)

plainResult(w, c) == IF c.op = "Write" THEN sinkWriteResult(w, c.b) ELSE NoResult

Captured(log, rc, plain, ret, plainRet) ==
    [op |-> "capture", log |-> log, rc |-> rc, plain |-> plain, ret |-> ret,
     plainRet |-> plainRet, record |-> capturedResponse(RequestA, rc)]

InitCapture ==
    /\ mode = "record"
    /\ store = EmptyStore
    /\ last = Captured(<<>>, NewCapturer(NewResponseWriter), NewResponseWriter,
                       NoResult, NoResult)
    /\ saved = NotSaved
    /\ pending = NoPending

CaptureStep(c) ==
    /\ Len(last.log) < MaxCalls
    /\ last' = Captured(Append(last.log, c), captureCall(last.rc, c),
                        plainCall(last.plain, c), captureResult(last.rc, c),
                        plainResult(last.plain, c))
    /\ UNCHANGED <<mode, store, saved, pending>>

\* rw.Header().Set(key, value)
CallSetHeader(key, value) == CaptureStep([op |-> "Set", key |-> key, value |-> value])

\* rw.Header().Del(key), as ReverseProxy clears the header map after an
\* informational response
CallDelHeader(key) == CaptureStep([op |-> "Del", key |-> key])

\* rw.WriteHeader(code)
CallWriteHeader(code) == CaptureStep([op |-> "WriteHeader", code |-> code])

\* rw.Write(b)
CallWrite(b) == CaptureStep([op |-> "Write", b |-> b])

NextCapture ==
    \/ \E key \in CaptureKeys, value \in CaptureValues : CallSetHeader(key, value)
    \/ \E key \in CaptureKeys : CallDelHeader(key)
    \/ \E code \in CaptureCodes : CallWriteHeader(code)
    \/ \E b \in CaptureChunks : CallWrite(b)

SpecCapture == InitCapture /\ [][NextCapture]_vars

(***************************************************************************)
(* Properties of Spec.                                                     *)
(***************************************************************************)
\* whether byte string part occurs in byte string whole
Contains(whole, part) ==
    \E i \in 0..(Len(whole) - Len(part)) : Take(Drop(whole, i), Len(part)) = part

\* equality of two bodies as the properties below read it: as JSON values when the
\* first is JSON, byte for byte otherwise
SameBody(recorded, replayed) ==
    IF Unmarshal(recorded).ok
    THEN Unmarshal(replayed).ok /\ Unmarshal(replayed).v = Unmarshal(recorded).v
    ELSE replayed = recorded

\* the last operation replayed the fingerprint of the latest successful save
ReplayOfSaved == last.op = "replay" /\ saved.ok /\ last.hash = saved.hash

\* C1: a replay of the request whose record was saved last is a hit that
\* returns the recorded status, every recorded header but Content-Length
\* and, when the status permits a body, a body equal to the recorded one.
C1_RecordThenReplay ==
    ReplayOfSaved =>
        /\ last.resp.status = saved.cached.StatusCode
        /\ \A key \in DOMAIN saved.cached.Headers \ {Str.ContentLength} :
              /\ key \in DOMAIN last.resp.header
              /\ last.resp.header[key] = saved.cached.Headers[key]
        /\ bodyAllowedForStatus(saved.cached.StatusCode)
              => SameBody(saved.cached.Body, last.resp.body)

\* C2: while the process runs in replay mode, the operation handled last
\* forwarded nothing to the backend, be it a hit, a miss or a load failure.
C2_ReplayNeverForwards == mode = "replay" => last.forwarded = <<>>

C2_Witness_Hit ==
    mode = "replay" /\ last.op = "replay" /\ last.resp.status = 200
    /\ store[last.hash].kind = "record"

\* C3: a replay of a fingerprint that has no file in the store is answered
\* 404 with a text/plain message that names the fingerprint.
C3_ReplayMissIs404 ==
    (last.op = "replay" /\ store[last.hash] = NoFile) =>
        /\ last.resp.status = 404
        /\ Str.ContentType \in DOMAIN last.resp.header
        /\ Take(last.resp.header[Str.ContentType][1], Len(Str.textPlainType)) = Str.textPlainType
        /\ Contains(last.resp.body, last.hash)

C3_Witness_EmptyStore ==
    last.op = "replay" /\ store = EmptyStore /\ last.resp.status = 404

\* C10: a record-mode request is answered as the backend's response relayed
\* directly, and as it is when the save succeeds, whatever became of the save.
C10_SaveFailureInvisible ==
    last.op = "record" =>
        /\ last.resp = ClientResponse(proxyServeWriter(NewResponseWriter,
                                                       ProxyCalls(last.outcome)))
        /\ last.resp = ClientResponse(ServeHTTP("record", EmptyStore, last.req, TRUE,
                                                last.outcome, "written").w)

C10_Witness_SaveFailed ==
    last.op = "record" /\ last.saveErr /\ last.resp.status = 200
    /\ Len(last.resp.body) > 0

\* the last operation, handled in passthrough mode, sent the request as it
\* came to the backend, relayed the backend's response and captured nothing
PassthroughRelays ==
    /\ last.forwarded = <<last.req>>
    /\ last.resp = ClientResponse(proxyServeWriter(NewResponseWriter,
                                                   ProxyCalls(last.outcome)))
    /\ last.cached = NoCached
    /\ ~last.saveErr

\* C12: in passthrough mode no step changes the store, a request is
\* forwarded and its response relayed without capture, and no fingerprint
\* is computed for it.
C12_PassthroughTouchesNothing ==
    /\ [][mode = "passthrough" => store' = store]_vars
    /\ [](last.op = "passthrough" => (PassthroughRelays /\ last.hash = <<>>))

\* C12 amended: in passthrough mode no step changes the store and a request
\* is forwarded and its response relayed without capture; its fingerprint
\* is computed all the same (ServeHTTP computes and logs it before it
\* looks at the mode), and used for nothing.
C12_PassthroughTouchesNothing_Amended ==
    /\ [][mode = "passthrough" => store' = store]_vars
    /\ [](last.op = "passthrough" =>
            /\ PassthroughRelays
            /\ last.hash = Generate(last.req.method, last.req.path, last.req.body))

C12_Witness_StoreKept ==
    /\ last.op = "passthrough"
    /\ last.resp.status = 200
    /\ \E k \in Keys : store[k].kind = "record"

\* the record Load returns for the fingerprint saved last is that record:
\* its fields as saved, its body equal to the body saved
LoadsAsSaved(loaded) ==
    /\ loaded.ok
    /\ loaded.cached.Method = saved.cached.Method
    /\ loaded.cached.Path = saved.cached.Path
    /\ loaded.cached.StatusCode = saved.cached.StatusCode
    /\ loaded.cached.Headers = saved.cached.Headers
    /\ SameBody(saved.cached.Body, loaded.cached.Body)

\* C15: after any sequence of saves to a fingerprint, the last of which
\* succeeded, Load of that fingerprint returns the record saved last.
C15_LastSaveWins == saved.ok => LoadsAsSaved(Load(store, saved.hash))

\* C23: a request whose body cannot be read is answered 500 with the
\* message of the read failure, nothing is sent to the backend, no
\* fingerprint is computed, and the store is what it was, in every mode.
C23_UnreadableBodyIsFatal ==
    /\ [][last'.op = "unreadable" => store' = store]_vars
    /\ [](last.op = "unreadable" =>
            /\ last.resp.status = 500
            /\ last.resp.body = Str.msgReadBody \o <<Ch.lf>>
            /\ last.forwarded = <<>>
            /\ last.hash = <<>>
            /\ last.writes = <<Str.msgReadBody \o <<Ch.lf>>>>)

\* in record mode, the backend within reach, a request's body could not be
\* read
C23_Witness_RecordMode ==
    mode = "record" /\ last.op = "unreadable" /\ last.resp.status = 500

\* the chunks of a response body, one after the other
RECURSIVE WholeBody(_)
WholeBody(chunks) ==
    IF chunks = <<>> THEN <<>> ELSE Head(chunks) \o WholeBody(Tail(chunks))

\* the status the proxy answers with for an outcome of the round trip
RelayedStatus(outcome) == IF outcome.err THEN 502 ELSE outcome.status

LoadsAsDelivered(loaded) ==
    /\ loaded.ok
    /\ loaded.cached.StatusCode = last.resp.status
    /\ SameBody(last.resp.body, loaded.cached.Body)

\* C29: after a record-mode request whose save succeeded, the record the
\* store holds under the request's fingerprint has the status code and the
\* body that were delivered to the client, whatever the backend's answer,
\* a 502 for an unreachable backend included.
C29_PersistsWhatWasDelivered ==
    (last.op = "record" /\ ~last.saveErr) => LoadsAsDelivered(Load(store, last.hash))

(***************************************************************************)
(* Properties of SpecCodec.                                                *)
(***************************************************************************)
\* C4: a body that is valid JSON, saved and loaded, comes back as a body
\* that parses to the same JSON value.
C4_JSONBodyRoundTrip ==
    (last.op = "loaded" /\ Unmarshal(last.body).ok) =>
        /\ last.loaded.ok
        /\ SameBody(last.body, last.loaded.cached.Body)

\* the characters of the base64 alphabet and its padding
IsBase64Text(s) ==
    \A i \in 1..Len(s) :
        IsUpper(s[i]) \/ IsLower(s[i]) \/ IsDigit(s[i])
        \/ s[i] \in {Ch.plus, Ch.slash, Ch.eq}

\* field is the JSON string holding the base64 text of body, or null for
\* the empty body
IsBase64Field(field, body) ==
    IF Len(body) = 0 THEN field = Str.null
    ELSE /\ Len(field) >= 2
         /\ Head(field) = Ch.quote
         /\ field[Len(field)] = Ch.quote
         /\ IsBase64Text(Take(Tail(field), Len(field) - 2))
         /\ DecodeString(Take(Tail(field), Len(field) - 2)) = [ok |-> TRUE, bytes |-> body]

\* C5: a body that is not valid JSON, saved and loaded, comes back byte for
\* byte, and the body field of the file is its base64 text as a JSON string
\* (null for the empty body).
C5_OpaqueBodyRoundTrip ==
    (last.op = "loaded" /\ ~Unmarshal(last.body).ok) =>
        /\ last.loaded.ok
        /\ last.loaded.cached.Body = last.body
        /\ IsBase64Field(store[CodecKey].body, last.body)

C5_Witness_Binary ==
    /\ last.op = "loaded"
    /\ last.body = <<0, 255, 65>>
    /\ last.loaded.ok
    /\ last.loaded.cached.Body = <<0, 255, 65>>

(***************************************************************************)
(* Properties of SpecStrip.                                                *)
(***************************************************************************)
\* C6: a request forwarded in record mode carries none of the five
\* validators, whatever the inbound request carried.
C6_NoValidatorsForwarded ==
    last.op = "record" =>
        \A i \in 1..Len(last.forwarded) :
            DOMAIN last.forwarded[i].header \cap ConditionalNames = {}

\* s without the spaces and tabs at its start
RECURSIVE TrimLeft(_)
TrimLeft(s) ==
    IF Len(s) > 0 /\ Head(s) \in {Ch.space, Ch.tab} THEN TrimLeft(Tail(s)) ELSE s

\* s without the spaces and tabs at its end
RECURSIVE TrimRight(_)
TrimRight(s) ==
    IF Len(s) > 0 /\ s[Len(s)] \in {Ch.space, Ch.tab}
    THEN TrimRight(Take(s, Len(s) - 1))
    ELSE s

\* the directives of a Cache-Control value: its comma-separated parts,
\* cur being the part in hand
RECURSIVE Directives(_, _)
Directives(s, cur) ==
    IF Len(s) = 0 THEN {TrimRight(TrimLeft(cur))}
    ELSE IF Head(s) = Ch.comma
         THEN {TrimRight(TrimLeft(cur))} \cup Directives(Tail(s), <<>>)
    ELSE Directives(Tail(s), Append(cur, Head(s)))

\* a Cache-Control value that asks for revalidation
RequestsRevalidation(value) ==
    Directives(value, <<>>) \cap {Str.noCache, Str.maxAge0} # {}

\* C7: a request forwarded in record mode carries no Cache-Control value
\* with a no-cache or max-age=0 directive, alone or among others.
C7_NoRevalidationForwarded ==
    last.op = "record" =>
        \A i \in 1..Len(last.forwarded) :
            Str.CacheControl \in DOMAIN last.forwarded[i].header =>
                \A j \in 1..Len(last.forwarded[i].header[Str.CacheControl]) :
                    ~RequestsRevalidation(last.forwarded[i].header[Str.CacheControl][j])

\* what stripConditionalHeaders returns for the last request
Reported == stripConditionalHeaders(last.req.header).stripped

\* the headers of the last request that are missing from the forwarded one
Removed == DOMAIN last.req.header \ DOMAIN last.forwarded[1].header

\* C28: in record mode stripConditionalHeaders returns true exactly when
\* the forwarded request lacks a header of the inbound one; only the five
\* conditional headers and Cache-Control are ever missing, Cache-Control
\* only when it asks for revalidation; every header forwarded has the
\* values it came with; and the request is forwarded and answered the same
\* whatever was returned.
C28_StripReportsRemoval ==
    last.op = "record" =>
        /\ Reported <=> Removed # {}
        /\ Removed \subseteq ConditionalNames \cup {Str.CacheControl}
        /\ Str.CacheControl \in Removed =>
              \E i \in 1..Len(last.req.header[Str.CacheControl]) :
                  RequestsRevalidation(last.req.header[Str.CacheControl][i])
        /\ \A k \in DOMAIN last.forwarded[1].header :
              /\ k \in DOMAIN last.req.header
              /\ last.forwarded[1].header[k] = last.req.header[k]
        /\ last.resp = ClientResponse(proxyServeWriter(NewResponseWriter,
                                                       ProxyCalls(last.outcome)))

\* a request with If-None-Match and Accept has been recorded: the first
\* removed and reported, the second kept
C28_Witness_Stripped ==
    /\ last.op = "record"
    /\ Reported
    /\ Removed = {Str.IfNoneMatch}
    /\ Str.Accept \in DOMAIN last.forwarded[1].header

(***************************************************************************)
(* Properties of SpecReplay.                                               *)
(***************************************************************************)
\* the last operation replayed a file that loads
ReplayOfRecord ==
    last.op = "replay" /\ store[last.hash].kind = "record" /\ Load(store, last.hash).ok

\* the body the file of the last operation holds
StoredBody == UnmarshalJSON(store[last.hash].body)

\* the statuses for which HTTP forbids a body
ForbidsBody(status) == status = 204 \/ status = 304 \/ status \in 100..199

\* the handler wrote nothing and the client received no body
NoBodyWritten == last.writes = <<>> /\ last.resp.body = <<>>

\* the handler wrote the stored body, once, and the client received it
StoredBodyWritten == last.writes = <<StoredBody>> /\ last.resp.body = StoredBody

\* the last operation replayed a file that loads and whose status code is
\* one the server accepts as an HTTP status
ReplayOfStatus == ReplayOfRecord /\ store[last.hash].status_code \in 100..999

\* C8: a replay of a record with status 204, 304 or 1xx writes no body;
\* with any other status the stored non-empty body is written.
C8_BodyOnlyWhenAllowed ==
    ReplayOfStatus =>
        IF ForbidsBody(store[last.hash].status_code) THEN NoBodyWritten
        ELSE Len(StoredBody) > 0 => StoredBodyWritten

\* C9: the response to a replay carries no Content-Length when the stored
\* record has one, however its name is written.
C9_NoStoredContentLength ==
    (ReplayOfRecord /\ ~last.resp.aborted
     /\ \E key \in DOMAIN store[last.hash].headers :
            CanonicalMIMEHeaderKey(key) = Str.ContentLength)
        => Str.ContentLength \notin DOMAIN last.resp.header

\* the headers of the file of the last operation
StoredHeaders == store[last.hash].headers

\* C21: a replay of a stored record sends every stored header other than
\* Content-Length that has values, under its canonical name, with all its
\* values in the stored order.
C21_HeaderValuesInOrder ==
    ReplayOfStatus =>
        \A key \in DOMAIN StoredHeaders :
            (key # Str.ContentLength /\ Len(StoredHeaders[key]) > 0) =>
                /\ CanonicalMIMEHeaderKey(key) \in DOMAIN last.resp.header
                /\ last.resp.header[CanonicalMIMEHeaderKey(key)] = StoredHeaders[key]

\* a record with a header of two values has been replayed
C21_Witness_TwoValues ==
    /\ ReplayOfStatus
    /\ Str.XMulti \in DOMAIN StoredHeaders
    /\ StoredHeaders[Str.XMulti] = <<Body.h, Body.i>>
    /\ last.resp.header[Str.XMulti] = <<Body.h, Body.i>>

\* the file of the last operation holds a whole record: it decodes and has
\* a status_code field
WholeRecord ==
    /\ store[last.hash].kind = "record"
    /\ Unmarshal(store[last.hash].body).ok
    /\ store[last.hash].status_code # 0

\* the response is the error response of the given status and nothing of
\* the handler's own
ErrorResponse(status) ==
    /\ last.resp.status = status
    /\ ~last.resp.aborted
    /\ Str.ContentType \in DOMAIN last.resp.header
    /\ last.resp.header[Str.ContentType] = <<Str.textPlain>>

\* C22: a replay request for which there is no file is answered 404; one
\* whose file cannot be read, does not decode or lacks the status code of
\* a record is answered 500; a status taken from the file is sent only
\* when the file holds a whole record.
C22_NoPartialRecordReplayed ==
    last.op = "replay" =>
        /\ store[last.hash] = NoFile => ErrorResponse(404)
        /\ (store[last.hash] # NoFile /\ ~WholeRecord) => ErrorResponse(500)

\* C26: handling a request in replay mode leaves every file of the store,
\* and the set of files, as it was, whether the request is a hit, a miss
\* or a failure to load.
C26_ReplayKeepsStore == [][last'.op = "replay" => store' = store]_vars

\* a replay has failed to load the file of its fingerprint
C26_Witness_LoadFailure ==
    /\ last.op = "replay"
    /\ Exists(store, last.hash)
    /\ ~Load(store, last.hash).ok
    /\ last.resp.status = 500

(***************************************************************************)
(* Properties of SpecStore.                                                *)
(***************************************************************************)
\* what Load returns when the file of the fingerprint is f
LoadOf(f) == Load([EmptyStore EXCEPT ![CodecKey] = f], CodecKey)

\* C11: a Load that runs while a Save of the same fingerprint is under way,
\* the file having been absent or a decodable record before, returns the
\* prior record, the new record or not-found, never a decoding failure.
C11_NoPartialRead ==
    (last.op = "load" /\ last.during /\ LoadOf(last.prior) # LoadOf(Garbage)) =>
        last.loaded \in {LoadOf(last.prior), LoadOf(last.data), LoadOf(NoFile)}

\* the error of Load for a missing file
IsNotFound(loaded) ==
    ~loaded.ok /\ loaded.err = Str.errRead /\ loaded.cause = "ErrNotExist"

\* the error of Load for a file that does not decode
IsCorrupt(loaded) == ~loaded.ok /\ loaded.err = Str.errUnmarshal

\* the file holds a JSON document
Decodes(file) == file.kind = "record" /\ Unmarshal(file.body).ok

\* C16: Load fails with the not-found error exactly when there is no file
\* for the fingerprint; it fails with another error, the decoding error,
\* when there is a file whose bytes do not decode; it returns a record only
\* when the bytes of the file decode.
C16_LoadOutcomes ==
    last.op = "load" =>
        /\ IsNotFound(last.loaded) <=> last.file = NoFile
        /\ (last.file.kind \in {"garbage", "record"} /\ ~Decodes(last.file)) =>
               (IsCorrupt(last.loaded) /\ ~IsNotFound(last.loaded))
        /\ last.loaded.ok => Decodes(last.file)

\* a Load of an undecodable file has failed with the decoding error
C16_Witness_Corrupt ==
    last.op = "load" /\ last.file = Garbage /\ IsCorrupt(last.loaded)

(***************************************************************************)
(* Properties of SpecHash.                                                 *)
(***************************************************************************)
\* (GET, /a, empty), (POST, /a, empty) and (GET, /b, empty)
NamedTriples ==
    {[method |-> Str.GET, path |-> Str.pathA, body |-> <<>>],
     [method |-> Str.POST, path |-> Str.pathA, body |-> <<>>],
     [method |-> Str.GET, path |-> Str.pathB, body |-> <<>>]}

\* C13: two calls of Generate on equal triples return equal fingerprints,
\* and two different triples among (GET, /a, empty), (POST, /a, empty) and
\* (GET, /b, empty) get different fingerprints.
C13_FingerprintDeterministic ==
    last.op = "hashed" =>
        /\ last.first = last.second => last.hashFirst = last.hashSecond
        /\ (last.first \in NamedTriples /\ last.second \in NamedTriples
            /\ last.first # last.second) => last.hashFirst # last.hashSecond

C13_Witness_GetAndPost ==
    /\ last.op = "hashed"
    /\ last.first = [method |-> Str.GET, path |-> Str.pathA, body |-> <<>>]
    /\ last.second = [method |-> Str.POST, path |-> Str.pathA, body |-> <<>>]
    /\ last.hashFirst # last.hashSecond

\* C14: two different triples get different fingerprints, also when a
\* method, path or body contains ':'.
C14_FingerprintInjective ==
    (last.op = "hashed" /\ last.first # last.second)
        => last.hashFirst # last.hashSecond


(***************************************************************************)
(* Properties of SpecKey.                                                  *)
(***************************************************************************)
\* the requests of the same method, path and body as the last request,
\* whatever their query string and their headers
SameTriple ==
    {r \in KeyRequests :
        /\ r.method = last.req.method
        /\ URLPath(r.target) = URLPath(last.req.target)
        /\ r.body = last.req.body}

\* handling r now, in the mode and with the backend's answer of the last
\* request
Served(r) == ServeHTTP(mode, store, r, TRUE, last.outcome, "written")

\* C24: a request that differs from the last request in its query string
\* or its headers only has the fingerprint of the last request; replayed,
\* it gets the response the last request got; recorded with the same
\* answer of the backend, it writes the file the last request wrote; and
\* the path of a record is the path its fingerprint was taken of.
C24_KeyOfMethodPathBody ==
    last.op \in {"record", "replay"} =>
        /\ \A r \in SameTriple :
              /\ Served(r).hash = last.hash
              /\ last.op = "replay" => ClientResponse(Served(r).w) = last.resp
              /\ last.op = "record" => Served(r).store = store
        /\ last.op = "record" =>
              /\ last.hash = Generate(last.req.method, last.cached.Path, last.req.body)
              /\ store[last.hash].path = last.cached.Path

\* a record made for /a?x=1 has been replayed for /%61 with another header
C24_Witness_OtherQuery ==
    /\ last.op = "replay"
    /\ last.req.target = <<Ch.slash, Ch.percent, 54, 49>>
    /\ last.req.header # <<>>
    /\ last.resp.status = 200
    /\ saved.ok
    /\ saved.hash = last.hash

(***************************************************************************)
(* Properties of SpecRace.                                                 *)
(***************************************************************************)
\* C25: once both saves have completed, the file holds the whole document
\* of the request whose write came last, and nothing else.
C25_LastWriterWins ==
    (\A w \in Writers : pending[w].pc = "saved") =>
        store[CodecKey].data = pending[last.writer].data

(***************************************************************************)
(* Properties of SpecCapture.                                              *)
(***************************************************************************)
\* the positions of the WriteHeader calls in the log
WriteHeaderCalls(log) == {i \in 1..Len(log) : log[i].op = "WriteHeader"}

\* the header map after the header changes among the first n calls
RECURSIVE HeadersSet(_, _)
HeadersSet(log, n) ==
    IF n = 0 THEN <<>>
    ELSE IF log[n].op = "Set"
         THEN HeaderSet(HeadersSet(log, n - 1), log[n].key, log[n].value)
    ELSE IF log[n].op = "Del" THEN HeaderDel(HeadersSet(log, n - 1), log[n].key)
    ELSE HeadersSet(log, n - 1)

\* C17: when WriteHeader has been called once, the headers of the captured
\* record are the headers set before that call, whatever is set on the
\* sink's header map after it.
C17_HeadersSnapshot ==
    last.op = "capture" =>
        \A i \in 1..Len(last.log) :
            WriteHeaderCalls(last.log) = {i} =>
                last.record.Headers = HeadersSet(last.log, i - 1)

\* WriteHeader has been called once and the sink's header map has been
\* changed since
C17_Witness_SetAfterStatus ==
    /\ last.op = "capture"
    /\ \E i \in 1..Len(last.log) :
          /\ WriteHeaderCalls(last.log) = {i}
          /\ HeadersSet(last.log, i - 1) # <<>>
          /\ Header(last.rc) # HeadersSet(last.log, i - 1)

\* the chunks of the Write calls of the log, in order
Chunks(log) == SelectSeq(log, LAMBDA c : c.op = "Write")

RECURSIVE Joined(_)
Joined(chunks) == IF chunks = <<>> THEN <<>> ELSE Head(chunks).b \o Joined(Tail(chunks))

\* C18: the captured body is the concatenation of the chunks written, in
\* the order of the calls, and the sink has been given each chunk as it was
\* written.
C18_BodyAccumulates ==
    last.op = "capture" =>
        /\ last.record.Body = Joined(Chunks(last.log))
        /\ last.rc.ResponseWriter.writes =
               [i \in 1..Len(Chunks(last.log)) |-> Chunks(last.log)[i].b]

\* two different chunks have been written
C18_Witness_TwoChunks ==
    /\ last.op = "capture"
    /\ Len(Chunks(last.log)) >= 2
    /\ Chunks(last.log)[1].b # Chunks(last.log)[2].b

\* no WriteHeader call precedes the first Write call, or there is none
NoStatusBeforeBody(log) ==
    \A i \in WriteHeaderCalls(log) : \E j \in 1..(i - 1) : log[j].op = "Write"

C20_CaptureObservesOnly ==
    last.op = "capture" =>
        /\ last.rc.ResponseWriter = last.plain
        /\ last.ret = last.plainRet

\* a header has been set, the status written and a Write refused for a
\* status that forbids a body
C20_Witness_AllCalls ==
    /\ last.op = "capture"
    /\ \E i, j \in 1..Len(last.log) :
          /\ i < j
          /\ last.log[i].op = "Set"
          /\ last.log[j].op = "WriteHeader"
    /\ last.ret.err = "ErrBodyNotAllowed"

\* C30: once the sink has committed the status, by WriteHeader or by the
\* first Write, the headers of the captured record are the headers the
\* sink held, and sent, at that moment.
C30_HeadersAtCommit ==
    (last.op = "capture" /\ last.rc.ResponseWriter.wroteHeader) =>
        last.record.Headers = last.rc.ResponseWriter.sent

\* the position of the last WriteHeader call of the log
LastWriteHeader(log) ==
    CHOOSE i \in WriteHeaderCalls(log) : \A j \in WriteHeaderCalls(log) : j <= i

\* C31: when WriteHeader has been called more than once, the status of the
\* captured record is the code of the last call and its headers are the
\* sink's header map as it was at that call, a header deleted since an
\* earlier call not among them.
C31_LastStatusWins ==
    (last.op = "capture" /\ Cardinality(WriteHeaderCalls(last.log)) >= 2) =>
        /\ last.record.StatusCode = last.log[LastWriteHeader(last.log)].code
        /\ last.record.Headers = HeadersSet(last.log, LastWriteHeader(last.log) - 1)

====
